---- MODULE Spec2Model ----
(***************************************************************************)
(* Model of flask/helper/routes.py: the orchestration layer of the         *)
(* repeated-fair-allocation demo.                                          *)
(*                                                                         *)
(*   - the capture harness _run_with_log_capture, one process per call,    *)
(*     stepping through its reads and writes of the process-wide state     *)
(*     (sys.stdout, sys.stderr, the root logger's level and handlers);     *)
(*   - the request handler home() with the parser _coerce_utils, stepping  *)
(*     through decode, the coercion loop, the agent-set check, the round   *)
(*     count check, the algorithm call, the summary and the render;        *)
(*   - the summarizer _round_values as a pure operator.                    *)
(*                                                                         *)
(* Specifications:                                                         *)
(*   Spec      one request after another through home()                    *)
(*   SpecSeq   calls of the harness that never overlap                     *)
(*   SpecConc  calls of the harness on concurrent threads                  *)
(*   SpecSum   _round_values applied to bounded inputs                     *)
(***************************************************************************)
EXTENDS Integers, Sequences, FiniteSets, TLC

\* ------------------------------------------------------------------ bounds
\* Number of harness calls (each with a buffer and a handler of its own).
MaxCalls == 2
\* Messages one wrapped callable emits.
MaxEmit == 1
\* Entries of the decoded outer mapping the coercion loop consumes.
MaxEntries == 3
\* Entries of one agent's decoded item mapping.
MaxItems == 2
\* Rounds of an allocation sequence.
MaxRounds == 2
\* Round counts k range over -MaxK .. MaxK.
MaxK == 2

\* --------------------------------------------------------------- constants
\* logging.DEBUG and logging.INFO.
DEBUG == 10
INFO == 20
\* The stream installed as sys.stdout / sys.stderr before any call; a call's
\* in-memory buffer is identified by the call's number (1..MaxCalls).
OrigStream == 0
\* The handler logging.basicConfig attached to the root logger; a call's
\* temporary handler is identified by the call's number.
BaseHandler == 0

Agents == {0, 1}
Calls == 1..MaxCalls

VARIABLES
  \* process-wide state mutated by the harness
  sysStdout, sysStderr, rootLevel, rootHandlers,
  \* per call of _run_with_log_capture
  hpc, oldOut, oldErr, prevLevel, buf, emitted, raising, captured,
  \* per request through home()
  rpc, k, algo, evalPath, used, out, utils, rounds, checks, vals,
  coerced, malformed, invocations, http, err,
  \* _round_values as a function: its arguments and its result
  sUtils, sRounds, sResult

hvars == <<sysStdout, sysStderr, rootLevel, rootHandlers,
           hpc, oldOut, oldErr, prevLevel, buf, emitted, raising, captured>>
rvars == <<rpc, k, algo, evalPath, used, out, utils, rounds, checks, vals,
           coerced, malformed, invocations, http, err>>
svars == <<sUtils, sRounds, sResult>>
vars == <<hvars, rvars, svars>>

\* ================================================================ harness
\* _run_with_log_capture, lines 61-81.

InitH ==
  /\ sysStdout = OrigStream
  /\ sysStderr = OrigStream
  /\ rootLevel = INFO
  /\ rootHandlers = {BaseHandler}
  /\ hpc = [c \in Calls |-> "idle"]
  /\ oldOut = [c \in Calls |-> OrigStream]
  /\ oldErr = [c \in Calls |-> OrigStream]
  /\ prevLevel = [c \in Calls |-> 0]
  /\ buf = [c \in Calls |-> {}]
  /\ emitted = [c \in Calls |-> {}]
  /\ raising = [c \in Calls |-> FALSE]
  /\ captured = [c \in Calls |-> {}]

\* buf = io.StringIO()
Start(c) ==
  /\ hpc[c] = "idle"
  /\ hpc' = [hpc EXCEPT ![c] = "out_save"]
  /\ buf' = [buf EXCEPT ![c] = {}]
  /\ UNCHANGED <<sysStdout, sysStderr, rootLevel, rootHandlers, oldOut, oldErr,
                 prevLevel, emitted, raising, captured>>
  /\ UNCHANGED <<rvars, svars>>

\* A call that starts only when no other call is between its entry and exit.
SeqStart(c) ==
  /\ \A d \in Calls : hpc[d] \in {"idle", "returned", "raised"}
  /\ Start(c)

\* redirect_stdout.__enter__: self._old_targets.append(getattr(sys, "stdout"))
SaveStdout(c) ==
  /\ hpc[c] = "out_save"
  /\ oldOut' = [oldOut EXCEPT ![c] = sysStdout]
  /\ hpc' = [hpc EXCEPT ![c] = "out_set"]
  /\ UNCHANGED <<sysStdout, sysStderr, rootLevel, rootHandlers, oldErr,
                 prevLevel, buf, emitted, raising, captured>>
  /\ UNCHANGED <<rvars, svars>>

\* redirect_stdout.__enter__: setattr(sys, "stdout", buf)
SetStdout(c) ==
  /\ hpc[c] = "out_set"
  /\ sysStdout' = c
  /\ hpc' = [hpc EXCEPT ![c] = "err_save"]
  /\ UNCHANGED <<sysStderr, rootLevel, rootHandlers, oldOut, oldErr,
                 prevLevel, buf, emitted, raising, captured>>
  /\ UNCHANGED <<rvars, svars>>

SaveStderr(c) ==
  /\ hpc[c] = "err_save"
  /\ oldErr' = [oldErr EXCEPT ![c] = sysStderr]
  /\ hpc' = [hpc EXCEPT ![c] = "err_set"]
  /\ UNCHANGED <<sysStdout, sysStderr, rootLevel, rootHandlers, oldOut,
                 prevLevel, buf, emitted, raising, captured>>
  /\ UNCHANGED <<rvars, svars>>

SetStderr(c) ==
  /\ hpc[c] = "err_set"
  /\ sysStderr' = c
  /\ hpc' = [hpc EXCEPT ![c] = "lvl_save"]
  /\ UNCHANGED <<sysStdout, rootLevel, rootHandlers, oldOut, oldErr,
                 prevLevel, buf, emitted, raising, captured>>
  /\ UNCHANGED <<rvars, svars>>

\* prev_level = root.level
SaveLevel(c) ==
  /\ hpc[c] = "lvl_save"
  /\ prevLevel' = [prevLevel EXCEPT ![c] = rootLevel]
  /\ hpc' = [hpc EXCEPT ![c] = "lvl_set"]
  /\ UNCHANGED <<sysStdout, sysStderr, rootLevel, rootHandlers, oldOut, oldErr,
                 buf, emitted, raising, captured>>
  /\ UNCHANGED <<rvars, svars>>

\* root.setLevel(logging.DEBUG)
SetDebug(c) ==
  /\ hpc[c] = "lvl_set"
  /\ rootLevel' = DEBUG
  /\ hpc' = [hpc EXCEPT ![c] = "add"]
  /\ UNCHANGED <<sysStdout, sysStderr, rootHandlers, oldOut, oldErr,
                 prevLevel, buf, emitted, raising, captured>>
  /\ UNCHANGED <<rvars, svars>>

\* root.addHandler(tmp_handler)
AddHandler(c) ==
  /\ hpc[c] = "add"
  /\ rootHandlers' = rootHandlers \cup {c}
  /\ hpc' = [hpc EXCEPT ![c] = "run"]
  /\ UNCHANGED <<sysStdout, sysStderr, rootLevel, oldOut, oldErr,
                 prevLevel, buf, emitted, raising, captured>>
  /\ UNCHANGED <<rvars, svars>>

\* The buffers a write to stream s reaches: the original stream is no buffer.
StreamTargets(s) == IF s = OrigStream THEN {} ELSE {s}

\* The buffers a log record of severity lvl reaches: Logger.isEnabledFor
\* compares with the root level (the loggers of the algorithm set none of their
\* own), and callHandlers hands the record to every handler of the root; the
\* temporary handlers (level NOTSET) write to the buffer they were built on.
LogTargets(lvl) == IF lvl >= rootLevel THEN rootHandlers \ {BaseHandler} ELSE {}

Deliver(c, targets) ==
  LET m == <<c, Cardinality(emitted[c]) + 1>> IN
  /\ emitted' = [emitted EXCEPT ![c] = @ \cup {m}]
  /\ buf' = [d \in Calls |-> IF d \in targets THEN buf[d] \cup {m} ELSE buf[d]]

\* result = func(*args, **kw): the callable prints ...
EmitPrint(c) ==
  /\ hpc[c] = "run"
  /\ Cardinality(emitted[c]) < MaxEmit
  /\ \E s \in {sysStdout, sysStderr} : Deliver(c, StreamTargets(s))
  /\ UNCHANGED <<sysStdout, sysStderr, rootLevel, rootHandlers, hpc, oldOut,
                 oldErr, prevLevel, raising, captured>>
  /\ UNCHANGED <<rvars, svars>>

\* ... and logs ...
EmitLog(c) ==
  /\ hpc[c] = "run"
  /\ Cardinality(emitted[c]) < MaxEmit
  /\ \E lvl \in {DEBUG, INFO} : Deliver(c, LogTargets(lvl))
  /\ UNCHANGED <<sysStdout, sysStderr, rootLevel, rootHandlers, hpc, oldOut,
                 oldErr, prevLevel, raising, captured>>
  /\ UNCHANGED <<rvars, svars>>

\* ... and returns or raises; either way control enters the finally block.
FuncEnds(c) ==
  /\ hpc[c] = "run"
  /\ \E r \in BOOLEAN : raising' = [raising EXCEPT ![c] = r]
  /\ hpc' = [hpc EXCEPT ![c] = "remove"]
  /\ UNCHANGED <<sysStdout, sysStderr, rootLevel, rootHandlers, oldOut, oldErr,
                 prevLevel, buf, emitted, captured>>
  /\ UNCHANGED <<rvars, svars>>

\* finally: root.removeHandler(tmp_handler)
RemoveHandler_noFinally(c) ==
  /\ hpc[c] = "remove"
  /\ rootHandlers' = IF raising[c] THEN rootHandlers ELSE rootHandlers \ {c}
  /\ hpc' = [hpc EXCEPT ![c] = "lvl_restore"]
  /\ UNCHANGED <<sysStdout, sysStderr, rootLevel, oldOut, oldErr,
                 prevLevel, buf, emitted, raising, captured>>
  /\ UNCHANGED <<rvars, svars>>
RemoveHandler(c) ==
  /\ hpc[c] = "remove"
  /\ rootHandlers' = rootHandlers \ {c}
  /\ hpc' = [hpc EXCEPT ![c] = "lvl_restore"]
  /\ UNCHANGED <<sysStdout, sysStderr, rootLevel, oldOut, oldErr,
                 prevLevel, buf, emitted, raising, captured>>
  /\ UNCHANGED <<rvars, svars>>

\* finally: root.setLevel(prev_level)
RestoreLevel(c) ==
  /\ hpc[c] = "lvl_restore"
  /\ rootLevel' = prevLevel[c]
  /\ hpc' = [hpc EXCEPT ![c] = "err_restore"]
  /\ UNCHANGED <<sysStdout, sysStderr, rootHandlers, oldOut, oldErr,
                 prevLevel, buf, emitted, raising, captured>>
  /\ UNCHANGED <<rvars, svars>>

\* redirect_stderr.__exit__: setattr(sys, "stderr", self._old_targets.pop())
RestoreStderr(c) ==
  /\ hpc[c] = "err_restore"
  /\ sysStderr' = oldErr[c]
  /\ hpc' = [hpc EXCEPT ![c] = "out_restore"]
  /\ UNCHANGED <<sysStdout, rootLevel, rootHandlers, oldOut, oldErr,
                 prevLevel, buf, emitted, raising, captured>>
  /\ UNCHANGED <<rvars, svars>>

\* redirect_stdout.__exit__
RestoreStdout(c) ==
  /\ hpc[c] = "out_restore"
  /\ sysStdout' = oldOut[c]
  /\ hpc' = [hpc EXCEPT ![c] = "exit"]
  /\ UNCHANGED <<sysStderr, rootLevel, rootHandlers, oldOut, oldErr,
                 prevLevel, buf, emitted, raising, captured>>
  /\ UNCHANGED <<rvars, svars>>

\* return result, buf.getvalue()  -- or the callable's exception propagates
Finish(c) ==
  /\ hpc[c] = "exit"
  /\ IF raising[c]
       THEN /\ hpc' = [hpc EXCEPT ![c] = "raised"]
            /\ UNCHANGED captured
       ELSE /\ hpc' = [hpc EXCEPT ![c] = "returned"]
            /\ captured' = [captured EXCEPT ![c] = buf[c]]
  /\ UNCHANGED <<sysStdout, sysStderr, rootLevel, rootHandlers, oldOut, oldErr,
                 prevLevel, buf, emitted, raising>>
  /\ UNCHANGED <<rvars, svars>>

HStep(c) ==
  \/ SaveStdout(c) \/ SetStdout(c) \/ SaveStderr(c) \/ SetStderr(c)
  \/ SaveLevel(c) \/ SetDebug(c) \/ AddHandler(c)
  \/ EmitPrint(c) \/ EmitLog(c) \/ FuncEnds(c)
  \/ RemoveHandler(c) \/ RestoreLevel(c) \/ RestoreStderr(c) \/ RestoreStdout(c)
  \/ Finish(c)

\* ============================================================= summarizer
\* _round_values, lines 84-104.  A valuation table maps an agent to a function
\* from item identifiers to values; a round maps an agent to its bundle.

Items == {0, 1}
\* Valuations are floats; the model draws them from small integers, which
\* doubles represent and add exactly, so a sum here is the float sum there.
Vals == {-3, 5}
Tables == UNION {[D -> Vals] : D \in SUBSET Items}
Utils == [Agents -> Tables]
Rounds == [Agents -> SUBSET Items]
RoundSeqs == UNION {[1..n -> Rounds] : n \in 0..MaxRounds}
\* An AllocationRound holds two disjoint bundles.
AllocRounds == {rd \in Rounds : rd[0] \cap rd[1] = {}}
AllocSeqs == UNION {[1..n -> AllocRounds] : n \in 0..MaxRounds}

\* utils[a][o]: a missing key raises KeyError.
Lookup_get(table, o) ==
  IF o \in DOMAIN table THEN [ok |-> TRUE, v |-> table[o]]
                        ELSE [ok |-> TRUE, v |-> 0]
Lookup(table, o) ==
  IF o \in DOMAIN table THEN [ok |-> TRUE, v |-> table[o]]
                        ELSE [ok |-> FALSE, v |-> 0]

\* sum(utils[a][o] for o in bundle)
RECURSIVE SumOver(_, _)
SumOver(table, bundle) ==
  IF bundle = {} THEN [ok |-> TRUE, v |-> 0]
  ELSE LET o == CHOOSE x \in bundle : TRUE
           e == Lookup(table, o)
           r == SumOver(table, bundle \ {o})
       IN  [ok |-> e.ok /\ r.ok, v |-> e.v + r.v]

\* The body of the loop: the four sums of one round and the appended entry.
RoundEntry_swapped(rd, u) ==
  LET own(a) == SumOver(u[a], rd[a])
      other(a) == SumOver(u[1 - a], rd[1 - a])
  IN  [ok |-> \A a \in Agents : own(a).ok /\ other(a).ok,
       e |-> [a \in Agents |-> [own |-> own(a).v, other |-> other(a).v]]]
RoundEntry(rd, u) ==
  LET own(a) == SumOver(u[a], rd[a])
      other(a) == SumOver(u[a], rd[1 - a])
  IN  [ok |-> \A a \in Agents : own(a).ok /\ other(a).ok,
       e |-> [a \in Agents |-> [own |-> own(a).v, other |-> other(a).v]]]

\* for rd in rounds: ... vals.append(...)
RECURSIVE RoundValuesFrom(_, _, _, _)
RoundValuesFrom(rs, u, i, acc) ==
  IF i > Len(rs) THEN [ok |-> TRUE, exc |-> "", vals |-> acc]
  ELSE LET r == RoundEntry(rs[i], u) IN
       IF ~r.ok THEN [ok |-> FALSE, exc |-> "KeyError", vals |-> <<>>]
       ELSE RoundValuesFrom(rs, u, i + 1, Append(acc, r.e))

round_values(rs, u) == RoundValuesFrom(rs, u, 1, <<>>)

NotRun == [ok |-> FALSE, exc |-> "not run", vals |-> <<>>]

InitS ==
  /\ sUtils = [a \in Agents |-> <<>>]
  /\ sRounds = <<>>
  /\ sResult = NotRun

SummarizeCall ==
  /\ sResult = NotRun
  /\ sResult' = round_values(sRounds, sUtils)
  /\ UNCHANGED <<sUtils, sRounds, hvars, rvars>>

\* ================================================================= parser
\* _coerce_utils, lines 40-58.  A decoded key or value is a token "<type>:<text>":
\* s = str, f = float, n = number, z = None.  JSON object keys are
\* always strings; the eval fallback also yields float keys (int truncates them).

JsonLabels == {"s:0", "s:1", "s:01", "s:2", "s:x"}
EvalLabels == JsonLabels \cup {"f:0.9"}
JsonItemLabels == {"s:0", "s:1", "s:x"}
EvalItemLabels == JsonItemLabels \cup {"f:0.9"}
ValueTokens == {"n:5", "s:5", "s:abc", "z:None"}

\* int(label): str is parsed (leading zeros allowed), float is truncated.
IntOf(l) ==
  CASE l = "s:0"   -> [ok |-> TRUE, v |-> 0, exc |-> ""]
    [] l = "s:1"   -> [ok |-> TRUE, v |-> 1, exc |-> ""]
    [] l = "s:2"   -> [ok |-> TRUE, v |-> 2, exc |-> ""]
    [] l = "s:01"  -> [ok |-> TRUE, v |-> 1, exc |-> ""]
    [] l = "f:0.9" -> [ok |-> TRUE, v |-> 0, exc |-> ""]
    [] OTHER       -> [ok |-> FALSE, v |-> 0, exc |-> "ValueError"]

\* float(value)
FloatOf(x) ==
  CASE x = "n:5"    -> [ok |-> TRUE, v |-> 5, exc |-> ""]
    [] x = "s:5"    -> [ok |-> TRUE, v |-> 5, exc |-> ""]
    [] x = "z:None" -> [ok |-> FALSE, v |-> 0, exc |-> "TypeError"]
    [] OTHER        -> [ok |-> FALSE, v |-> 0, exc |-> "ValueError"]

Labels(viaEval) == IF viaEval THEN EvalLabels ELSE JsonLabels
ItemLabels(viaEval) == IF viaEval THEN EvalItemLabels ELSE JsonItemLabels

\* The decoded item mappings: key/value pairs in iteration order, keys distinct.
ItemMaps(viaEval) ==
  LET E == ItemLabels(viaEval) \X ValueTokens IN
  {m \in UNION {[1..n -> E] : n \in 0..MaxItems} :
     \A i, j \in 1..Len(m) : i # j => m[i][1] # m[j][1]}

Put(t, key, v) == [x \in DOMAIN t \cup {key} |-> IF x = key THEN v ELSE t[x]]

\* {int(it): float(val) for it, val in items.items()}
RECURSIVE CoerceItems(_, _, _)
CoerceItems(m, i, acc) ==
  IF i > Len(m) THEN [ok |-> TRUE, t |-> acc, exc |-> ""]
  ELSE LET key == IntOf(m[i][1]) IN
       IF ~key.ok THEN [ok |-> FALSE, t |-> <<>>, exc |-> key.exc]
       ELSE LET val == FloatOf(m[i][2]) IN
            IF ~val.ok THEN [ok |-> FALSE, t |-> <<>>, exc |-> val.exc]
            ELSE CoerceItems(m, i + 1, Put(acc, key.v, val.v))

\* What the comprehension makes of each decoded item mapping: a table or the
\* exception of the first key or value that does not coerce.
JsonItemOutcomes == {CoerceItems(m, 1, <<>>) : m \in ItemMaps(FALSE)}
EvalItemOutcomes == {CoerceItems(m, 1, <<>>) : m \in ItemMaps(TRUE)}
ItemOutcomes(viaEval) == IF viaEval THEN EvalItemOutcomes ELSE JsonItemOutcomes

\* if set(out) != {0, 1}: abort(400, ...)
AgentSetOK_subset(o) == {0, 1} \subseteq DOMAIN o
AgentSetOK(o) == DOMAIN o = {0, 1}

\* ================================================================ request
\* home(), lines 108-155.

AlgoTokens == {"1", "2"}
KValues == (0 - MaxK)..MaxK

Terminal == {"rendered", "rejected", "failed"}

InitR ==
  /\ rpc = "idle"
  /\ k = 2
  /\ algo = "1"
  /\ evalPath = FALSE
  /\ used = {}
  /\ out = <<>>
  /\ utils = <<>>
  /\ rounds = <<>>
  /\ checks = {}
  /\ vals = <<>>
  /\ coerced = FALSE
  /\ malformed = FALSE
  /\ invocations = 0
  /\ http = 0
  /\ err = ""

\* An uncaught exception: Flask answers 500.
Fails(exc) ==
  /\ rpc' = "failed"
  /\ http' = 500
  /\ err' = exc

\* abort(400, ...)
Aborts(why) ==
  /\ rpc' = "rejected"
  /\ http' = 400
  /\ err' = why

\* A POST arrives.
Receive ==
  /\ rpc = "idle"
  /\ rpc' = "recv"
  /\ UNCHANGED <<k, algo, evalPath, used, out, utils, rounds, checks, vals,
                 coerced, malformed, invocations, http, err>>
  /\ UNCHANGED <<hvars, svars>>

\* utils_raw = request.form["utilities"]; k = int(request.form.get("k", 2));
\* algo_sel = request.form.get("algo", "1").
ReadForm ==
  /\ rpc = "recv"
  /\ \/ \E kk \in KValues, a \in AlgoTokens :
          /\ k' = kk
          /\ algo' = a
          /\ rpc' = "form"
          /\ UNCHANGED <<http, err>>
     \/ \* no "utilities" field: the form lookup raises BadRequestKeyError,
        \* an HTTPException that Flask answers with 400
        /\ Aborts("BadRequestKeyError")
        /\ UNCHANGED <<k, algo>>
     \/ \* the k field is no integer literal: int() raises
        /\ Fails("ValueError")
        /\ UNCHANGED <<k, algo>>
  /\ UNCHANGED <<evalPath, used, out, utils, rounds, checks, vals, coerced,
                 malformed, invocations>>
  /\ UNCHANGED <<hvars, svars>>

\* The response is sent and the request's locals are gone: nothing of it
\* survives into the next request.
Respond ==
  /\ rpc \in Terminal
  /\ rpc' = "idle"
  /\ k' = 2
  /\ algo' = "1"
  /\ evalPath' = FALSE
  /\ used' = {}
  /\ out' = <<>>
  /\ utils' = <<>>
  /\ rounds' = <<>>
  /\ checks' = {}
  /\ vals' = <<>>
  /\ coerced' = FALSE
  /\ malformed' = FALSE
  /\ invocations' = 0
  /\ http' = 0
  /\ err' = ""
  /\ UNCHANGED <<hvars, svars>>

\* try: data = json.loads(raw)  except json.JSONDecodeError: data = eval(raw, {})
\* then `for a_lbl, items in data.items()` on what was decoded.
Decode ==
  /\ rpc = "form"
  /\ \/ \E e \in BOOLEAN :
          \* a mapping, decoded by json.loads (e false) or by eval (e true)
          /\ evalPath' = e
          /\ rpc' = "loop"
          /\ UNCHANGED <<malformed, http, err>>
     \/ \E e \in BOOLEAN :
          \* decoded to something that is no mapping: data.items() raises
          /\ evalPath' = e
          /\ malformed' = TRUE
          /\ Fails("AttributeError")
     \/ \* neither decoder accepts the text: eval raises
        /\ evalPath' = TRUE
        /\ malformed' = TRUE
        /\ Fails("SyntaxError")
  /\ UNCHANGED <<k, algo, used, out, utils, rounds, checks, vals, coerced,
                 invocations>>
  /\ UNCHANGED <<hvars, svars>>

\* One iteration of the loop: a = int(a_lbl); out[a] = {...}.  An exception
\* leaves the function, and its locals with it.
EntryFails(exc) ==
  /\ malformed' = TRUE
  /\ Fails(exc)
  /\ used' = {}
  /\ out' = <<>>
  /\ evalPath' = FALSE

CoerceEntry ==
  /\ rpc = "loop"
  /\ Cardinality(used) < MaxEntries
  /\ \E l \in Labels(evalPath) \ used :
       LET a == IntOf(l) IN
       IF ~a.ok
         THEN EntryFails(a.exc)
         ELSE \/ \* items is no mapping: items.items() raises
                 EntryFails("AttributeError")
              \/ \E t \in ItemOutcomes(evalPath) :
                   IF ~t.ok
                     THEN EntryFails(t.exc)
                     ELSE /\ used' = used \cup {l}
                          /\ out' = Put(out, a.v, t.t)
                          /\ UNCHANGED <<malformed, rpc, http, err, evalPath>>
  /\ UNCHANGED <<k, algo, utils, rounds, checks, vals, coerced,
                 invocations>>
  /\ UNCHANGED <<hvars, svars>>

\* The loop is over: if set(out) != {0, 1}: abort(400, ...); return out.
CheckAgents ==
  /\ rpc = "loop"
  /\ coerced' = TRUE
  /\ IF AgentSetOK(out)
       THEN /\ utils' = out
            /\ rpc' = "parsed"
            /\ UNCHANGED <<http, err>>
       ELSE /\ Aborts("InvalidAgentSet")
            /\ UNCHANGED utils
  /\ used' = {}
  /\ evalPath' = FALSE
  /\ UNCHANGED <<k, algo, out, rounds, checks, vals, malformed,
                 invocations>>
  /\ UNCHANGED <<hvars, svars>>

\* if algo_sel == "1": if k != 2: abort(400, ...)
\* else:               if k % 2:  abort(400, ...)
KAccepted(a, kk) == IF a = "1" THEN kk = 2 ELSE kk % 2 = 0

CheckK ==
  /\ rpc = "parsed"
  /\ IF KAccepted(algo, k)
       THEN /\ rpc' = "validated"
            /\ UNCHANGED <<http, err>>
       ELSE Aborts("InvalidRoundCount")
  /\ UNCHANGED <<k, algo, evalPath, used, out, utils, rounds, checks, vals,
                 coerced, malformed, invocations>>
  /\ UNCHANGED <<hvars, svars>>

\* rounds, log_txt = _run_with_log_capture(rfaoi.algorithm1, utils)  (or
\* algorithm2, k, utils).  The call does not overlap another here, and such a
\* call leaves the process-wide state as it found it (SpecSeq); what the
\* algorithm returns is not this module's to decide.
Invoke_aborts ==
  /\ rpc = "validated"
  /\ invocations' = invocations + 1
  /\ \/ \E rs \in AllocSeqs :
          /\ rounds' = rs
          /\ rpc' = "computed"
          /\ UNCHANGED <<http, err>>
     \/ /\ Aborts("AlgorithmError")
        /\ UNCHANGED rounds
  /\ UNCHANGED <<k, algo, evalPath, used, out, utils, checks, vals, coerced,
                 malformed>>
  /\ UNCHANGED <<hvars, svars>>
Invoke ==
  /\ rpc = "validated"
  /\ invocations' = invocations + 1
  /\ \/ \E rs \in AllocSeqs :
          /\ rounds' = rs
          /\ rpc' = "computed"
          /\ UNCHANGED <<http, err>>
     \/ /\ Fails("AlgorithmError")
        /\ UNCHANGED rounds
  /\ UNCHANGED <<k, algo, evalPath, used, out, utils, checks, vals, coerced,
                 malformed>>
  /\ UNCHANGED <<hvars, svars>>

\* checks = [[EF1_holds(rd, a, utils) for a in (0, 1)] for rd in rounds]
\* (weak_EF1_holds for algorithm 2); vals = _round_values(rounds, utils).
\* The verdicts are the external predicates'; the model keeps which (round,
\* agent) pairs got one.
Summarize ==
  /\ rpc = "computed"
  /\ LET r == round_values(rounds, utils) IN
     IF r.ok
       THEN /\ checks' = (1..Len(rounds)) \X Agents
            /\ vals' = r.vals
            /\ rpc' = "summarized"
            /\ UNCHANGED <<http, err>>
       ELSE /\ Fails(r.exc)
            /\ UNCHANGED <<checks, vals>>
  /\ UNCHANGED <<k, algo, evalPath, used, out, utils, rounds, coerced,
                 malformed, invocations>>
  /\ UNCHANGED <<hvars, svars>>

\* return render_template("algo1.html" | "algo2.html", ...)
Render ==
  /\ rpc = "summarized"
  /\ rpc' = "rendered"
  /\ http' = 200
  /\ UNCHANGED <<k, algo, evalPath, used, out, utils, rounds, checks, vals,
                 coerced, malformed, invocations, err>>
  /\ UNCHANGED <<hvars, svars>>

\* ========================================================= specifications
Init == InitH /\ InitR /\ InitS

Next ==
  \/ Receive \/ ReadForm \/ Respond \/ Decode \/ CoerceEntry \/ CheckAgents \/ CheckK
  \/ Invoke \/ Summarize \/ Render

Spec == Init /\ [][Next]_vars

NextSeq == \E c \in Calls : SeqStart(c) \/ HStep(c)

SpecSeq == Init /\ [][NextSeq]_vars

NextConc == \E c \in Calls : Start(c) \/ HStep(c)

SpecConc == Init /\ [][NextConc]_vars

\* The arguments of one call, drawn from the bounded sets.
InitSum ==
  /\ InitH
  /\ InitR
  /\ sUtils \in Utils
  /\ sRounds \in RoundSeqs
  /\ sResult = NotRun

NextSum == SummarizeCall

SpecSum == InitSum /\ [][NextSum]_vars

\* ================================================================= claims

\* No call of the harness is between its entry and its exit.
Quiescent == \A c \in Calls : hpc[c] \in {"idle", "returned", "raised"}

\* C1 (SpecConc): once every concurrent call of the harness has exited, the
\* root logger's level is the one it had before the first call and no
\* temporary handler is attached.
C1_LoggingStateRestored ==
  Quiescent => rootLevel = INFO /\ rootHandlers = {BaseHandler}

\* C2 (SpecSeq): a call that overlaps no other leaves, on its normal and on its
\* exceptional exit, the root level at the value it read on entry and its own
\* handler detached; after any sequence of such calls the logging state is the
\* initial one.
C2_SequentialRestores ==
  /\ \A c \in Calls :
       hpc[c] \in {"err_restore", "out_restore", "exit"}
         => rootLevel = prevLevel[c] /\ c \notin rootHandlers
  /\ Quiescent => rootLevel = INFO /\ rootHandlers = {BaseHandler}

\* C2 witness: two calls have run one after the other, one returned and one
\* raised.
C2_Witness ==
  /\ \E c, d \in Calls : hpc[c] = "returned" /\ hpc[d] = "raised"
  /\ \A c \in Calls : hpc[c] \in {"returned", "raised"}

\* C3 (SpecConc): the text a call returns holds exactly the messages its own
\* callable emitted.
C3_NoCrossRequestLeak ==
  \A c \in Calls : hpc[c] = "returned" => captured[c] = emitted[c]

\* C10 (SpecConc): once every concurrent call has exited, sys.stdout and
\* sys.stderr are the streams installed before the first call.
C10_StreamsRestored ==
  Quiescent => sysStdout = OrigStream /\ sysStderr = OrigStream

\* The round counts the design admits: 2 for the two-round variant, the even
\* numbers from 2 up for the general one.
KRequired(a, kk) == IF a = "1" THEN kk = 2 ELSE kk % 2 = 0 /\ kk >= 2

\* C4 (Spec): a request gets past the round-count check, and the algorithm is
\* invoked, only if k == 2 (selector "1") or k is even and k >= 2 (any other
\* selector).
C4_RoundCountGuard ==
  (rpc \in {"validated", "computed", "summarized", "rendered"} \/ invocations > 0)
    => KRequired(algo, k)

\* C5 (Spec): _coerce_utils returns a table only if the coerced agent set is
\* exactly {0, 1}; when the coercion loop completes with any other agent set,
\* no table is returned and the request is rejected with 400.
C5_AgentSetExact ==
  /\ utils # <<>> => coerced /\ DOMAIN utils = {0, 1}
  /\ (coerced /\ DOMAIN out # {0, 1})
       => utils = <<>> /\ rpc = "rejected" /\ http = 400
            /\ err = "InvalidAgentSet"

\* C5 witness: a payload with agents 0, 1 and 2 has been rejected.
C5_Witness ==
  coerced /\ DOMAIN out = {0, 1, 2} /\ rpc = "rejected" /\ http = 400

\* C6 (Spec): a malformed payload ends in the client-input rejection, never in
\* an uncaught failure.
C6_MalformedIsClientError ==
  malformed => rpc = "rejected" /\ http = 400

\* The states of the request as the design names them.
ReqState(pc) ==
  CASE pc \in {"recv", "form", "loop", "parsed"} -> "Received"
    [] pc = "validated"  -> "Validated"
    [] pc = "computed"   -> "Computed"
    [] pc = "summarized" -> "Summarized"
    [] pc = "rendered"   -> "Rendered"
    [] pc = "rejected"   -> "Rejected"
    [] OTHER             -> "None"

\* C7 (Spec): a rejection comes before any invocation of the algorithm: a
\* rejected request has no invocation, Rejected is entered from Received or
\* Validated only, and a payload without agent 1 is rejected as an invalid
\* agent set whatever the selector and k, with no invocation.
C7_RejectBeforeInvoke ==
  /\ [](rpc = "rejected" => invocations = 0 /\ http = 400)
  /\ [](malformed => invocations = 0)
  /\ [](coerced /\ 1 \notin DOMAIN out
          => rpc = "rejected" /\ err = "InvalidAgentSet" /\ invocations = 0)
  /\ [][rpc' = "rejected" /\ rpc # "rejected"
          => ReqState(rpc) \in {"Received", "Validated"}]_vars

\* C7 witness: a payload pricing agent 0 alone was rejected, under the general
\* variant with an even k.
C7_Witness ==
  /\ coerced /\ DOMAIN out = {0} /\ rpc = "rejected"
  /\ algo = "2" /\ k = 2 /\ invocations = 0

\* The sum of a table's values over a set of priced items.
RECURSIVE SetSum(_, _)
SetSum(table, S) ==
  IF S = {} THEN 0
  ELSE LET o == CHOOSE x \in S : TRUE IN table[o] + SetSum(table, S \ {o})

Partitions(rd, U) == rd[0] \cup rd[1] = U /\ rd[0] \cap rd[1] = {}

Unpriced ==
  \E i \in 1..Len(sRounds) : \E a, b \in Agents :
    ~(sRounds[i][b] \subseteq DOMAIN sUtils[a])

\* C9 (SpecSum): if a bundle holds an item absent from either agent's mapping,
\* the summarizer ends in an error and returns no values, partial or defaulted.
C9_MissingValuationRaises ==
  (sResult # NotRun /\ Unpriced)
    => ~sResult.ok /\ sResult.exc = "KeyError" /\ sResult.vals = <<>>

\* C9 witness: the unpriced item comes in the second round, after a round that
\* was summarized, and only agent 1 lacks it.
C9_Witness ==
  /\ sResult # NotRun /\ ~sResult.ok
  /\ Len(sRounds) >= 2
  /\ \A a, b \in Agents : sRounds[1][b] \subseteq DOMAIN sUtils[a]
  /\ sRounds[1][0] # {}
  /\ \A b \in Agents : sRounds[2][b] \subseteq DOMAIN sUtils[0]
  /\ ~(sRounds[2][0] \subseteq DOMAIN sUtils[1])

====
